---- MODULE Spec2Model ----
(***************************************************************************)
(* Retro 1v1 chat relay: room registry, relay engine, liveness monitor and *)
(* room snapshot of the two server variants of the repository:             *)
(*   "history"  = src/unnamed/part_000 (allRooms + roomUpdated + sorting)  *)
(*   "liveonly" = src/server/server.js (live room map only)                *)
(* One behaviour runs one of the two variants from start to end.           *)
(* The iteration order of the room map and of the historical set, which    *)
(* only /api/rooms reads, is kept in the behaviours that start in          *)
(* InitOrdered and left out of the others.                                 *)
(***************************************************************************)
EXTENDS Integers, Sequences, FiniteSets, TLC

\* ---------------------------------------------------------------- bounds
NumConns == 3          \* connection slots (ws objects alive at one time)
MaxTime == 2           \* Date.now() takes the values 1..MaxTime

\* ------------------------------------------------------ program constants
RoomIdMax == 64        \* .slice(0, 64)
NameMax == 32          \* .slice(0, 32)
TextMax == 2000        \* text.length > 2000
PolicyViolation == 1008
OPEN == "OPEN"         \* WebSocket.OPEN, the 1 of client.readyState === 1

Conns == 1..NumConns
Variants == {"history", "liveonly"}

VARIABLES
  variant,      \* which server file is running
  readyState,   \* ws.readyState: "NONE" (no such ws), OPEN, "CLOSING", "CLOSED"
  meta,         \* per-ws { room, name }; room is <<>> (null) or <<roomId>>
  isAlive,      \* ws.isAlive
  closeCode,    \* code of the ws.close(code) call that started the closing, 0 if none
  terminated,   \* ws.terminate() was called on the ws
  rooms,        \* Map roomId -> Set<ws>
  allRooms,     \* Set<roomId> (history variant)
  roomUpdated,  \* Map roomId -> ts (history variant)
  now,          \* Date.now()
  outbox,       \* per ws: payloads passed to ws.send() by the last ws event
  last,         \* the last ws event handled (connection, message, close)
  ordered,      \* whether the state keeps the iteration order of rooms and allRooms
  roomsOrder,   \* the keys of rooms in insertion order (kept when ordered)
  allOrder,     \* the elements of allRooms in insertion order (kept when ordered)
  lastEvent     \* roomId -> time of its last join, msg or leave (kept when ordered)

vars == <<variant, readyState, meta, isAlive, closeCode, terminated, rooms,
          allRooms, roomUpdated, now, outbox, last, ordered, roomsOrder, allOrder,
          lastEvent>>

\* ------------------------------------------------------------ pure helpers
Min(a, b) == IF a < b THEN a ELSE b

RECURSIVE Rep(_, _)
\* a string of n copies of the character c
Rep(c, n) ==
  IF n = 0 THEN ""
  ELSE LET h == Rep(c, n \div 2)
       IN  IF n % 2 = 0 THEN h \o h ELSE h \o h \o c

\* String.prototype.slice(0, n)
Slice(s, n) == SubSeq(s, 1, Min(Len(s), n))

IsSpace(ch) == ch \in {" ", "\t", "\n"}

RECURSIVE TrimStart(_)
TrimStart(s) ==
  IF Len(s) > 0 /\ IsSpace(SubSeq(s, 1, 1)) THEN TrimStart(SubSeq(s, 2, Len(s))) ELSE s

RECURSIVE TrimEnd(_)
TrimEnd(s) ==
  IF Len(s) > 0 /\ IsSpace(SubSeq(s, Len(s), Len(s)))
  THEN TrimEnd(SubSeq(s, 1, Len(s) - 1)) ELSE s

\* String.prototype.trim()
Trim(s) == TrimEnd(TrimStart(s))

\* String(obj[k] || dflt) for a parsed JSON object with string fields
FieldOr(obj, k, dflt) ==
  IF k \in DOMAIN obj /\ obj[k] # "" THEN obj[k] ELSE dflt

\* option values: null is <<>>, a room reference is <<roomId>>
Null == << >>
Some(v) == <<v>>
\* JS truthiness of meta.room: null and "" are falsy
Truthy(o) == o # Null /\ o[1] # ""
\* the Map key a room reference stands for
RoomKey(o) == IF o = Null THEN "null" ELSE o[1]

\* ----------------------------------------------------- Map / Set helpers
\* A Map is a function on the set of its keys. The iteration (insertion)
\* order of rooms and allRooms is not part of the state: only /api/rooms reads
\* it, to break ties between rooms of equal timestamp.
EmptyMap == << >>
Has(m, k) == k \in DOMAIN m
Get(m, k) == m[k]
MapDelete(m, k) == [r \in DOMAIN m \ {k} |-> m[r]]
MapSet(m, k, S) == [r \in DOMAIN m \cup {k} |-> IF r = k THEN S ELSE m[r]]
\* the member set of room k, empty when the map has no such key
Members(m, k) == IF Has(m, k) THEN Get(m, k) ELSE {}

\* The iteration order of a Map or Set: a delete removes the key, the set of a
\* new key appends it, the set of a present key leaves it in place.
RECURSIVE KeepKeys(_, _)
KeepKeys(ord, K) ==
  IF ord = << >> THEN << >>
  ELSE IF Head(ord) \in K THEN <<Head(ord)>> \o KeepKeys(Tail(ord), K)
  ELSE KeepKeys(Tail(ord), K)
RECURSIVE AppendKeys(_, _)
AppendKeys(ord, K) ==
  IF K = {} THEN ord
  ELSE LET k == CHOOSE x \in K : TRUE IN AppendKeys(Append(ord, k), K \ {k})
Range(ord) == {ord[i] : i \in DOMAIN ord}
\* the order after one change of the key set to K
Sync(ord, K) == AppendKeys(KeepKeys(ord, K), K \ Range(ord))

\* touch(roomId): roomUpdated.set(roomId, Date.now())
touch(ru, roomId) == MapSet(ru, roomId, now)
\* roomUpdated.get(r) || 0
Updated(r) == IF r \in DOMAIN roomUpdated THEN roomUpdated[r] ELSE 0

\* ----------------------------------------------------------- wire inputs
LongRoom == Rep("r", RoomIdMax) \o "x"      \* 65 characters
LongName == Rep("n", NameMax) \o "x"        \* 33 characters
MaxText == Rep("t", TextMax)                \* 2000 characters

NotJson == [json |-> FALSE]
Json(obj) == [json |-> TRUE, obj |-> obj]

JoinObjs ==
  { [type |-> "join"],
    [type |-> "join", room |-> "", name |-> ""],
    [type |-> "join", room |-> "a"],
    [type |-> "join", room |-> LongRoom, name |-> LongName] }
MsgObjs ==
  {[type |-> "msg"]}
  \cup {[type |-> "msg", text |-> t] :
          t \in {" \t", " hi ", MaxText \o "t", " " \o MaxText \o "\n"}}
OtherObjs == {[type |-> "leave"], [text |-> "hi"]}
Frames == {NotJson} \cup {Json(o) : o \in JoinObjs \cup MsgObjs \cup OtherObjs}

\* safeJson(str): null when the text does not parse
safeJson(frame) == IF frame.json THEN Some(frame.obj) ELSE Null

Empty == [c \in Conns |-> << >>]

\* ------------------------------------------------------------------ Init
\* the server after start: no ws, empty registry
Start ==
  /\ variant \in Variants
  /\ readyState = [c \in Conns |-> "NONE"]
  /\ meta = [c \in Conns |-> [room |-> Null, name |-> "Anonymous"]]
  /\ isAlive = [c \in Conns |-> TRUE]
  /\ closeCode = [c \in Conns |-> 0]
  /\ terminated = [c \in Conns |-> FALSE]
  /\ rooms = EmptyMap
  /\ allRooms = {}
  /\ roomUpdated = EmptyMap
  /\ now = 1
  /\ outbox = Empty
  /\ last = [ev |-> "init", ws |-> 0, kind |-> "none"]
  /\ roomsOrder = << >>
  /\ allOrder = << >>
  /\ lastEvent = EmptyMap

Init == Start /\ ordered = FALSE
\* the same start, with the iteration orders and the event times recorded
InitOrdered == Start /\ ordered = TRUE

\* wss.on("connection"): a new ws object takes a free slot
Connection(c) ==
  /\ readyState[c] = "NONE"
  /\ readyState' = [readyState EXCEPT ![c] = OPEN]
  /\ meta' = [meta EXCEPT ![c] = [room |-> Null, name |-> "Anonymous"]]
  /\ isAlive' = [isAlive EXCEPT ![c] = TRUE]
  /\ closeCode' = [closeCode EXCEPT ![c] = 0]
  /\ terminated' = [terminated EXCEPT ![c] = FALSE]
  /\ outbox' = Empty
  /\ last' = [ev |-> "connection", ws |-> c, kind |-> "none"]
  /\ UNCHANGED <<variant, rooms, allRooms, roomUpdated, now, ordered, roomsOrder,
                 allOrder, lastEvent>>

\* ---------------------------------------------------------------- payloads
ErrorPayload(reason) == [type |-> "error", reason |-> reason]
JoinedPayload(roomId, name) == [type |-> "joined", room |-> roomId, you |-> name]
\* `${name} 加入了房间`
JoinNotice(name) == [type |-> "system", text |-> name \o " joined"]
\* `${m.name} 离开了房间`
LeaveNotice(name) == [type |-> "system", text |-> name \o " left"]
MsgPayload(name, text) == [type |-> "msg", name |-> name, text |-> text, ts |-> now]

\* ws.send(payload) on each ws of the set S
SendAll(ob, S, payload) ==
  [c \in Conns |-> IF c \in S THEN Append(ob[c], payload) ELSE ob[c]]

\* broadcast that forgets to skip exceptWs
broadcastToAll(m, rs, roomId, exceptWs) ==
  {client \in Members(m, roomId) : rs[client] = OPEN}

\* broadcast(roomId, payload, exceptWs): the members of the room, as the map m
\* has it, whose transport is open, except exceptWs (0 when not given)
broadcast(m, rs, roomId, exceptWs) ==
  {client \in Members(m, roomId) : rs[client] = OPEN /\ client # exceptWs}

\* the leave without the deletion of the emptied entry
LeaveRoomKeepsEntry(m, roomId, c) == MapSet(m, roomId, Get(m, roomId) \ {c})

\* set.delete(ws); if (set.size === 0) rooms.delete(roomId)
LeaveRoom(m, roomId, c) ==
  IF Get(m, roomId) \ {c} = {} THEN MapDelete(m, roomId)
  ELSE MapSet(m, roomId, Get(m, roomId) \ {c})

\* ws.close(code): starts the closing handshake of an open ws, no effect otherwise
WsClose(c, code) ==
  /\ readyState' = [readyState EXCEPT ![c] = IF @ = OPEN THEN "CLOSING" ELSE @]
  /\ closeCode' = [closeCode EXCEPT ![c] = IF readyState[c] = OPEN THEN code ELSE @]

\* the capacity test off by one: set.size > 2
RoomFullOffByOne(set) == Cardinality(set) > 2

\* set.size >= 2
RoomFull(set) == Cardinality(set) >= 2

\* the room guard of the msg branch left out
HasRoomAlways(m) == TRUE

\* the msg branch goes on: if (!meta.room) return
HasRoom(m) == Truthy(m.room)

\* a historical set that remembers only the room joined last
AddRoomForgetsOthers(all, roomId) == {roomId}

\* allRooms.add(roomId)
AddRoom(all, roomId) == all \cup {roomId}

RoomIdOf(obj) == Slice(FieldOr(obj, "room", ""), RoomIdMax)
NameOf(obj) == Slice(FieldOr(obj, "name", "Anonymous"), NameMax)

\* the insertion order and the event times are recorded in ordered behaviours only
Recorded(old, new) == IF ordered THEN new ELSE old
\* the event times once c has been removed, at `now`, from the room o it was in
Left(le, m, o, c) ==
  IF Truthy(o) /\ c \in Members(m, RoomKey(o)) THEN MapSet(le, RoomKey(o), now) ELSE le

\* ------------------------------------------------ join, src/unnamed/part_000
JoinHistory(c, obj) ==
  LET roomId == RoomIdOf(obj)
      name == NameOf(obj)
      old == meta[c].room
      rooms1 == IF Truthy(old) /\ Has(rooms, RoomKey(old))
                THEN LeaveRoom(rooms, RoomKey(old), c) ELSE rooms
      rooms2 == IF ~Has(rooms1, roomId) THEN MapSet(rooms1, roomId, {}) ELSE rooms1
      set == Get(rooms2, roomId)
  IN  IF roomId = ""
      THEN /\ outbox' = SendAll(Empty, {c}, ErrorPayload("invalid_room"))
           /\ UNCHANGED <<readyState, closeCode, meta, rooms, allRooms, roomUpdated,
                          roomsOrder, allOrder, lastEvent>>
      ELSE IF RoomFull(set)
      THEN /\ rooms' = rooms2
           /\ outbox' = SendAll(Empty, {c}, ErrorPayload("room_full"))
           /\ WsClose(c, PolicyViolation)
           /\ roomsOrder' = Recorded(roomsOrder,
                                     Sync(Sync(roomsOrder, DOMAIN rooms1), DOMAIN rooms2))
           /\ lastEvent' = Recorded(lastEvent, Left(lastEvent, rooms, old, c))
           /\ UNCHANGED <<meta, allRooms, roomUpdated, allOrder>>
      ELSE /\ rooms' = MapSet(rooms2, roomId, set \cup {c})
           /\ meta' = [meta EXCEPT ![c] = [room |-> Some(roomId), name |-> name]]
           /\ allRooms' = AddRoom(allRooms, roomId)
           /\ roomUpdated' = touch(roomUpdated, roomId)
           /\ roomsOrder' = Recorded(roomsOrder,
                                     Sync(Sync(roomsOrder, DOMAIN rooms1), DOMAIN rooms2))
           /\ allOrder' = Recorded(allOrder, Sync(allOrder, allRooms'))
           /\ lastEvent' = Recorded(lastEvent,
                                    MapSet(Left(lastEvent, rooms, old, c), roomId, now))
           /\ outbox' = SendAll(SendAll(Empty, {c}, JoinedPayload(roomId, name)),
                                broadcast(rooms', readyState, roomId, c),
                                JoinNotice(name))
           /\ UNCHANGED <<readyState, closeCode>>

\* ------------------------------------------------- join, src/server/server.js
\* `set` is the Set object fetched before the old room is left: when the old
\* room is the joined room and ws was its only member, rooms.delete detaches
\* that object from the map and set.add(ws) adds to the detached object.
JoinLive(c, obj) ==
  LET roomId == RoomIdOf(obj)
      name == NameOf(obj)
      rooms1 == IF ~Has(rooms, roomId) THEN MapSet(rooms, roomId, {}) ELSE rooms
      set == Get(rooms1, roomId)
      old == meta[c].room
      leaves == Truthy(old) /\ Has(rooms1, RoomKey(old))
      rooms2 == IF leaves THEN LeaveRoom(rooms1, RoomKey(old), c) ELSE rooms1
      detached == ~Has(rooms2, roomId)
      setAfter == IF leaves /\ RoomKey(old) = roomId THEN set \ {c} ELSE set
  IN  IF RoomFull(set)
      THEN /\ rooms' = rooms1
           /\ outbox' = SendAll(Empty, {c}, ErrorPayload("room_full"))
           /\ WsClose(c, PolicyViolation)
           /\ UNCHANGED <<meta, allRooms, roomUpdated, roomsOrder, allOrder, lastEvent>>
      ELSE /\ rooms' = IF detached THEN rooms2
                       ELSE MapSet(rooms2, roomId, setAfter \cup {c})
           /\ meta' = [meta EXCEPT ![c] = [room |-> Some(roomId), name |-> name]]
           /\ roomsOrder' = Recorded(roomsOrder,
                                     Sync(Sync(roomsOrder, DOMAIN rooms1), DOMAIN rooms2))
           /\ lastEvent' = Recorded(lastEvent,
                                    MapSet(Left(lastEvent, rooms1, old, c), roomId, now))
           /\ outbox' = SendAll(SendAll(Empty, {c}, JoinedPayload(roomId, name)),
                                broadcast(rooms', readyState, roomId, c),
                                JoinNotice(name))
           /\ UNCHANGED <<readyState, closeCode, allRooms, roomUpdated, allOrder>>

\* --------------------------------------------------------- msg, both files
Msg(c, obj) ==
  LET m == meta[c]
      text == Trim(FieldOr(obj, "text", ""))
  IN  IF ~HasRoom(m) \/ text = "" \/ Len(text) > TextMax
      THEN /\ outbox' = Empty
           /\ UNCHANGED <<roomUpdated, lastEvent>>
      ELSE /\ outbox' = SendAll(SendAll(Empty, {c}, MsgPayload(m.name, text)),
                                broadcast(rooms, readyState, RoomKey(m.room), c),
                                MsgPayload(m.name, text))
           /\ roomUpdated' = IF variant = "history"
                             THEN touch(roomUpdated, RoomKey(m.room)) ELSE roomUpdated
           /\ lastEvent' = Recorded(lastEvent, MapSet(lastEvent, RoomKey(m.room), now))

\* a dispatch that takes every parsed object without a known type for a msg
KindDefaultsToMsg(frame) ==
  IF safeJson(frame) = Null THEN "ignored"
  ELSE LET obj == safeJson(frame)[1]
       IN  IF "type" \in DOMAIN obj /\ obj.type = "join" THEN "join" ELSE "msg"

\* what the handler does with a parsed object
Kind(frame) ==
  IF safeJson(frame) = Null THEN "ignored"
  ELSE LET obj == safeJson(frame)[1]
       IN  IF "type" \in DOMAIN obj /\ obj.type \in {"join", "msg"}
           THEN obj.type ELSE "ignored"

\* ws.on("message"): frames arrive until the transport closes; ws.terminate()
\* destroys the socket, ws.close() keeps reading until the peer answers
Message(c, frame) ==
  /\ readyState[c] \in {OPEN, "CLOSING"}
  /\ ~terminated[c]
  /\ last' = [ev |-> "message", ws |-> c, kind |-> Kind(frame)]
  /\ IF Kind(frame) = "join"
     THEN IF variant = "history" THEN JoinHistory(c, frame.obj)
                                 ELSE JoinLive(c, frame.obj)
     ELSE IF Kind(frame) = "msg"
     THEN /\ Msg(c, frame.obj)
          /\ UNCHANGED <<readyState, closeCode, meta, rooms, allRooms, roomsOrder,
                         allOrder>>
     ELSE /\ outbox' = Empty
          /\ UNCHANGED <<readyState, closeCode, meta, rooms, allRooms, roomUpdated,
                         roomsOrder, allOrder, lastEvent>>
  /\ UNCHANGED <<variant, isAlive, terminated, now, ordered>>

\* After its close event no handler reads the fields of a ws again (it has left
\* wss.clients, and broadcast reads only the readyState of the members of a
\* room): the slot of a discarded object goes back to the values of Init, and
\* stays "CLOSED" only while a member set still holds the object.
Discard(c) ==
  /\ readyState' = [readyState EXCEPT ![c] =
                      IF \E r \in DOMAIN rooms' : c \in rooms'[r]
                      THEN "CLOSED" ELSE "NONE"]
  /\ meta' = [meta EXCEPT ![c] = [room |-> Null, name |-> "Anonymous"]]
  /\ isAlive' = [isAlive EXCEPT ![c] = TRUE]
  /\ closeCode' = [closeCode EXCEPT ![c] = 0]
  /\ terminated' = [terminated EXCEPT ![c] = FALSE]

\* ws.on("close"): the transport has closed (peer close, error, or the end of
\* a closing started by ws.close / ws.terminate); runs once per ws, with
\* ws.readyState already CLOSED
Close(c) ==
  /\ readyState[c] \in {OPEN, "CLOSING"}
  /\ LET m == meta[c]
         rs == [readyState EXCEPT ![c] = "CLOSED"]
     IN  IF Truthy(m.room) /\ Has(rooms, RoomKey(m.room))
         THEN /\ rooms' = LeaveRoom(rooms, RoomKey(m.room), c)
              /\ outbox' = SendAll(Empty, broadcast(rooms', rs, RoomKey(m.room), 0),
                                   LeaveNotice(m.name))
              /\ roomUpdated' = IF variant = "history"
                                THEN touch(roomUpdated, RoomKey(m.room)) ELSE roomUpdated
              /\ roomsOrder' = Recorded(roomsOrder, Sync(roomsOrder, DOMAIN rooms'))
              /\ lastEvent' = Recorded(lastEvent, Left(lastEvent, rooms, m.room, c))
         ELSE /\ outbox' = Empty
              /\ UNCHANGED <<rooms, roomUpdated, roomsOrder, lastEvent>>
  /\ last' = [ev |-> "close", ws |-> c, kind |-> "none"]
  /\ Discard(c)
  /\ UNCHANGED <<variant, allRooms, now, ordered, allOrder>>

\* ws.on("pong")
Pong(c) ==
  /\ readyState[c] = OPEN
  /\ isAlive' = [isAlive EXCEPT ![c] = TRUE]
  /\ UNCHANGED <<variant, readyState, meta, closeCode, terminated, rooms, allRooms,
                 roomUpdated, now, outbox, last, ordered, roomsOrder, allOrder,
                 lastEvent>>

\* wss.clients: every ws whose close event has not run
Clients == {c \in Conns : readyState[c] \in {OPEN, "CLOSING"}}

\* a heartbeat that terminates without looking at ws.isAlive
TickTerminatesAll ==
  /\ Clients # {}
  /\ terminated' = [c \in Conns |-> IF c \in Clients THEN TRUE ELSE terminated[c]]
  /\ readyState' = [c \in Conns |-> IF c \in Clients THEN "CLOSING" ELSE readyState[c]]
  /\ isAlive' = [c \in Conns |-> IF c \in Clients THEN FALSE ELSE isAlive[c]]
  /\ UNCHANGED <<variant, meta, closeCode, rooms, allRooms, roomUpdated, now,
                 outbox, last, ordered, roomsOrder, allOrder, lastEvent>>

\* the heartbeat setInterval callback
Tick ==
  /\ Clients # {}
  /\ terminated' = [c \in Conns |->
                      IF c \in Clients /\ ~isAlive[c] THEN TRUE ELSE terminated[c]]
  /\ readyState' = [c \in Conns |->
                      IF c \in Clients /\ ~isAlive[c] THEN "CLOSING" ELSE readyState[c]]
  /\ isAlive' = [c \in Conns |-> IF c \in Clients THEN FALSE ELSE isAlive[c]]
  /\ UNCHANGED <<variant, meta, closeCode, rooms, allRooms, roomUpdated, now,
                 outbox, last, ordered, roomsOrder, allOrder, lastEvent>>

\* the wall clock moves between events
ClockAdvance ==
  /\ now < MaxTime
  /\ now' = now + 1
  /\ UNCHANGED <<variant, readyState, meta, isAlive, closeCode, terminated, rooms,
                 allRooms, roomUpdated, outbox, last, ordered, roomsOrder, allOrder,
                 lastEvent>>

\* GET /api/rooms?scope=...: the room ids listed (server.js has no scope and
\* lists the live rooms; the order of the list is left out here)
SnapshotIds(scope) ==
  IF variant = "history" /\ scope = "all" THEN allRooms
  ELSE {r \in DOMAIN rooms : rooms[r] # {}}

\* list.sort((a, b) => (roomUpdated.get(b) || 0) - (roomUpdated.get(a) || 0)):
\* a stable sort, descending by timestamp
RECURSIVE InsertSorted(_, _)
InsertSorted(sorted, r) ==
  IF sorted = << >> THEN <<r>>
  ELSE IF Updated(Head(sorted)) >= Updated(r)
  THEN <<Head(sorted)>> \o InsertSorted(Tail(sorted), r)
  ELSE <<r>> \o sorted
RECURSIVE SortByUpdated(_)
SortByUpdated(list) ==
  IF list = << >> THEN << >>
  ELSE InsertSorted(SortByUpdated(SubSeq(list, 1, Len(list) - 1)), list[Len(list)])

\* Array.from(rooms.entries()).filter(([_, set]) => set && set.size > 0).map(...)
ActiveList == KeepKeys(roomsOrder, {r \in DOMAIN rooms : rooms[r] # {}})

\* GET /api/rooms?scope=...: the response, in an ordered behaviour. server.js
\* reads no scope and does not sort.
Snapshot(scope) ==
  IF variant = "history"
  THEN SortByUpdated(IF scope = "all" THEN allOrder ELSE ActiveList)
  ELSE ActiveList

\* The liveness monitor with the relay engine, on one named room and the
\* empty room id.
MonitorFrames ==
  {Json([type |-> "join"]), Json([type |-> "join", room |-> "a"]),
   Json([type |-> "msg", text |-> " hi "])}

MonitorNext ==
  \/ \E c \in Conns : Connection(c)
  \/ \E c \in Conns : \E frame \in MonitorFrames : Message(c, frame)
  \/ \E c \in Conns : Close(c)
  \/ \E c \in Conns : Pong(c)
  \/ Tick

SpecMonitor == Init /\ [][MonitorNext]_vars

\* The relay engine with a moving clock, on two named rooms.
ClockFrames ==
  {Json([type |-> "join", room |-> "a"]),
   Json([type |-> "join", room |-> LongRoom, name |-> LongName]),
   Json([type |-> "msg", text |-> " hi "])}

ClockNext ==
  \/ \E c \in Conns : Connection(c)
  \/ \E c \in Conns : \E frame \in ClockFrames : Message(c, frame)
  \/ \E c \in Conns : Close(c)
  \/ ClockAdvance

SpecClock == InitOrdered /\ [][ClockNext]_vars

\* The relay engine alone: connections, frames and closes.
RelayNext ==
  \/ \E c \in Conns : Connection(c)
  \/ \E c \in Conns : \E frame \in Frames : Message(c, frame)
  \/ \E c \in Conns : Close(c)

Spec == Init /\ [][RelayNext]_vars

\* ------------------------------------------------------------------ claims
ErrorOnly(c, reason) == outbox[c] = <<ErrorPayload(reason)>>
JoinStep(c) == last' = [ev |-> "message", ws |-> c, kind |-> "join"]
MsgStep(c) == last' = [ev |-> "message", ws |-> c, kind |-> "msg"]
JoinFrames == {Json(o) : o \in JoinObjs}
MsgFrames == {Json(o) : o \in MsgObjs}

\* C1: every room id of the live registry maps to a member set of at most 2
\* connections, in every reachable state.
C1_Capacity == \A r \in DOMAIN rooms : Cardinality(rooms[r]) <= 2

\* a third connection has just been refused by a room that holds two others
C1_Witness ==
  \E r \in DOMAIN rooms : \E c \in Conns :
    /\ Cardinality(rooms[r]) = 2
    /\ c \notin rooms[r]
    /\ last = [ev |-> "message", ws |-> c, kind |-> "join"]
    /\ ErrorOnly(c, "room_full")

\* C2: a connection is in the member set of room r exactly when its room
\* reference is r, for every connection and every (non-empty) room id, in
\* every reachable state.
C2_Bidirectional ==
  \A c \in Conns : \A r \in (DOMAIN rooms \cup {RoomKey(meta[c].room)}) \ {"", "null"} :
    c \in Members(rooms, r) <=> meta[c].room = Some(r)

\* C3: a join for a room whose member set already has 2 connections sends the
\* joiner exactly one room_full error, closes it with code 1008 and does not
\* add it to the room (that the closing then completes is the transport's part).
C3_RoomFullRejection ==
  [][\A c \in Conns : JoinStep(c) =>
       \A f \in JoinFrames :
         LET roomId == RoomIdOf(f.obj)
         IN  (Message(c, f) /\ Cardinality(Members(rooms, roomId)) = 2) =>
               /\ outbox'[c] = <<ErrorPayload("room_full")>>
               /\ readyState'[c] = "CLOSING"
               /\ closeCode'[c] = PolicyViolation
               /\ c \in Members(rooms', roomId) => c \in Members(rooms, roomId)
    ]_vars

\* C4: a join whose room id is empty after truncation sends the joiner an
\* invalid_room error and changes neither the registry nor the connection.
C4_InvalidRoom ==
  [][\A c \in Conns : JoinStep(c) =>
       \A f \in JoinFrames :
         (Message(c, f) /\ RoomIdOf(f.obj) = "") =>
           /\ outbox'[c] = <<ErrorPayload("invalid_room")>>
           /\ UNCHANGED <<rooms, meta, allRooms, roomUpdated, readyState>>
    ]_vars

\* C5: an accepted msg (the sender has a reference to a room, whose id is
\* never empty; the trimmed text is non-empty and at most 2000 characters) is sent to the sender exactly once
\* and to at most one other connection.
C5_Echo ==
  [][\A c \in Conns : MsgStep(c) =>
       \A f \in MsgFrames :
         LET text == Trim(FieldOr(f.obj, "text", ""))
         IN  (Message(c, f) /\ meta[c].room \notin {Null, Some("")}
                /\ text # "" /\ Len(text) <= 2000) =>
               /\ Len(outbox'[c]) = 1
               /\ outbox'[c][1].type = "msg" /\ outbox'[c][1].text = text
               /\ Cardinality({d \in Conns \ {c} : outbox'[d] # << >>}) <= 1
               /\ \A d \in Conns \ {c} : Len(outbox'[d]) <= 1
    ]_vars

\* C6: a msg event on a connection without a room reference sends nothing to
\* anyone and changes neither the registry nor the activity timestamps.
C6_UnjoinedMsg ==
  [][\A c \in Conns :
       (MsgStep(c) /\ meta[c].room = Null) =>
         /\ outbox' = Empty
         /\ UNCHANGED <<rooms, allRooms, roomUpdated, meta>>
    ]_vars

\* an open connection that never joined has just sent a msg frame
C6_Witness ==
  \E c \in Conns :
    /\ last = [ev |-> "message", ws |-> c, kind |-> "msg"]
    /\ readyState[c] = OPEN
    /\ meta[c].room = Null
    /\ outbox = Empty

\* C7: when the close transition of a connection joined to a room (whose id is
\* never empty) runs, every other open connection of its room receives exactly
\* one departure notice, and no connection that was not a co-member of that
\* room receives one.
C7_DepartureNotice ==
  [][\A c \in Conns :
       (last'.ev = "close" /\ last'.ws = c /\ Close(c)) =>
         LET r == meta[c].room
             peers == IF r \notin {Null, Some("")} /\ c \in Members(rooms, RoomKey(r))
                      THEN {d \in Members(rooms, RoomKey(r)) \ {c} : readyState[d] = OPEN}
                      ELSE {}
         IN  \A d \in Conns :
               outbox'[d] = IF d \in peers THEN <<LeaveNotice(meta[c].name)>> ELSE << >>
    ]_vars

\* C8: when a joined connection closes and no other member remains in its
\* room, snapshot(active) no longer lists the room id, and in the variant that
\* tracks history snapshot(all) still lists it.
C8_LastDeparture ==
  [][\A c \in Conns :
       (last'.ev = "close" /\ last'.ws = c /\ Close(c)) =>
         LET r == meta[c].room
         IN  (r # Null /\ Members(rooms, RoomKey(r)) \ {c} = {}) =>
               /\ RoomKey(r) \notin SnapshotIds("active")'
               /\ variant = "history" => RoomKey(r) \in SnapshotIds("all")'
    ]_vars

\* C9: a connection whose liveness flag is still false at a tick is terminated
\* by that tick, and when its close transition then runs it is in no member
\* set any more (that the close transition does run is the transport's part).
C9_Reclamation ==
  [][/\ Tick => \A c \in Conns :
                  (readyState[c] = OPEN /\ ~isAlive[c]) =>
                     terminated'[c] /\ readyState'[c] = "CLOSING"
     /\ \A c \in Conns :
          (terminated[c] /\ last'.ev = "close" /\ last'.ws = c /\ Close(c)) =>
             \A r \in DOMAIN rooms' : c \notin rooms'[r]
    ]_vars

C10_Room(obj) ==
  IF "room" \in DOMAIN obj
  THEN SubSeq(obj.room, 1, IF Len(obj.room) < 64 THEN Len(obj.room) ELSE 64)
  ELSE ""
C10_Name(obj) ==
  IF "name" \in DOMAIN obj /\ obj.name # ""
  THEN SubSeq(obj.name, 1, IF Len(obj.name) < 32 THEN Len(obj.name) ELSE 32)
  ELSE "Anonymous"
C10_Accepted(c) ==
  outbox'[c] \notin {<<ErrorPayload("room_full")>>, <<ErrorPayload("invalid_room")>>}

\* C10 as claimed: on every accepted join (of a room, whose id is never empty)
\* the joiner receives exactly one joined acknowledgement with the truncated
\* room id and the resolved name and no join notice, and every other occupant
\* of the room receives exactly one join notice.
C10_EveryOccupantNotified ==
  [][\A c \in Conns : JoinStep(c) =>
       \A f \in JoinFrames :
         (Message(c, f) /\ C10_Accepted(c) /\ C10_Room(f.obj) # "") =>
           /\ outbox'[c] = <<JoinedPayload(C10_Room(f.obj), C10_Name(f.obj))>>
           /\ \A d \in Members(rooms', C10_Room(f.obj)) \ {c} :
                outbox'[d] = <<JoinNotice(C10_Name(f.obj))>>
    ]_vars

\* C10 as amended: ... every other occupant of the room whose transport is
\* open receives exactly one join notice, and nobody else receives anything.
C10_OpenOccupantsNotified ==
  [][\A c \in Conns : JoinStep(c) =>
       \A f \in JoinFrames :
         (Message(c, f) /\ C10_Accepted(c)) =>
           /\ outbox'[c] = <<JoinedPayload(C10_Room(f.obj), C10_Name(f.obj))>>
           /\ \A d \in Conns \ {c} :
                outbox'[d] =
                  IF d \in Members(rooms', C10_Room(f.obj)) /\ readyState[d] = OPEN
                  THEN <<JoinNotice(C10_Name(f.obj))>> ELSE << >>
    ]_vars

\* a join with a 65-character room id and a 33-character name was accepted
\* into a room with an open occupant
C10_Witness ==
  \E c \in Conns : \E d \in Conns \ {c} :
    /\ last = [ev |-> "message", ws |-> c, kind |-> "join"]
    /\ outbox[c] = <<[type |-> "joined", room |-> Rep("r", 64), you |-> Rep("n", 32)]>>
    /\ outbox[d] = <<JoinNotice(Rep("n", 32))>>
    /\ rooms[Rep("r", 64)] = {c, d}
\* position of room id r in a list, 0 when it is not listed
RECURSIVE IndexOf(_, _)
IndexOf(list, r) ==
  IF list = << >> THEN 0
  ELSE IF list[Len(list)] = r /\ IndexOf(SubSeq(list, 1, Len(list) - 1), r) = 0
  THEN Len(list)
  ELSE IndexOf(SubSeq(list, 1, Len(list) - 1), r)
Scopes == {"active", "all"}
EventTime(r) == IF r \in DOMAIN lastEvent THEN lastEvent[r] ELSE 0
AcceptedMsg(c) ==
  /\ last = [ev |-> "message", ws |-> c, kind |-> "msg"]
  /\ outbox[c] # << >>

\* C11: both snapshots are sorted by descending last-activity timestamp (no
\* timestamp counts as 0, last), and right after an accepted msg of a member
\* of room r, r is listed before every other listed room whose last join, msg or leave
\* happened strictly earlier.
C11_SnapshotOrdering ==
  \A scope \in Scopes :
    LET list == Snapshot(scope)
    IN  /\ \A i, j \in DOMAIN list : i < j => Updated(list[i]) >= Updated(list[j])
        /\ \A c \in Conns :
              LET r == RoomKey(meta[c].room)
              IN  (AcceptedMsg(c) /\ c \in Members(rooms, r)) =>
                  \A j \in DOMAIN list :
                    (list[j] # r /\ EventTime(list[j]) < EventTime(r)) =>
                      (IndexOf(list, r) # 0 /\ IndexOf(list, r) < j)

\* C12: a msg whose trimmed text is empty or longer than 2000 characters sends
\* nothing to anyone and changes no activity timestamp (nor anything else of
\* the registry); a msg of trimmed length 1 to 2000 from a connection with a
\* room reference is echoed to its sender with the trimmed text.
C12_TextValidation ==
  [][\A c \in Conns : MsgStep(c) =>
       \A f \in MsgFrames :
         LET text == Trim(FieldOr(f.obj, "text", ""))
         IN  Message(c, f) =>
               IF text = "" \/ Len(text) > 2000
               THEN /\ outbox' = Empty
                    /\ UNCHANGED <<rooms, allRooms, roomUpdated, meta>>
               ELSE meta[c].room # Null =>
                      outbox'[c] = <<[type |-> "msg", name |-> meta[c].name,
                                      text |-> text, ts |-> now]>>
    ]_vars

\* C13: when a member of room A sends a join for a different (non-empty) room
\* B, it is no longer in A's member set afterwards, every open connection
\* that remains in A is sent one departure notice, and A has left the live
\* registry if nobody remains in it.
C13_RoomSwitch ==
  [][\A c \in Conns : JoinStep(c) =>
       \A f \in JoinFrames :
         LET A == RoomKey(meta[c].room)
             B == RoomIdOf(f.obj)
             rest == Members(rooms, A) \ {c}
         IN  (Message(c, f) /\ Truthy(meta[c].room) /\ c \in Members(rooms, A)
                /\ B # "" /\ B # A) =>
               /\ c \notin Members(rooms', A)
               /\ \A d \in rest : readyState[d] = OPEN =>
                                     outbox'[d] = <<LeaveNotice(meta[c].name)>>
               /\ rest = {} => A \notin DOMAIN rooms'
    ]_vars

\* C14: a join answered with room_full leaves the live registry, the
\* historical set, the activity timestamps and the joiner's room reference
\* and name as they were before the join event.
C14_RejectedJoinPreserves ==
  [][\A c \in Conns :
       (JoinStep(c) /\ outbox'[c] = <<ErrorPayload("room_full")>>) =>
         UNCHANGED <<rooms, allRooms, roomUpdated, meta>>
    ]_vars

\* C15: whatever a ws event of connection c makes the server send to another
\* connection d (a chat msg or a system notice) goes to a member of the member
\* set of c's room, of which c itself is a member at that moment: before the
\* event for a msg and a close, after it for a join.
C15_RoomIsolation ==
  [][\A c \in Conns : \A d \in Conns \ {c} :
       (last'.ws = c /\ outbox'[d] # << >>) =>
         IF last'.kind = "join"
         THEN {c, d} \subseteq Members(rooms', RoomKey(meta'[c].room))
         ELSE {c, d} \subseteq Members(rooms, RoomKey(meta[c].room))
    ]_vars

NoEmptyEntry == \A r \in DOMAIN rooms : rooms[r] # {}
EntryCreatedByJoiner ==
  \A r \in DOMAIN rooms' \ DOMAIN rooms :
    \E c \in Conns : JoinStep(c) /\ c \in rooms'[r]
EntryDeletedByLastMember ==
  \A r \in DOMAIN rooms \ DOMAIN rooms' :
    \E c \in Conns : /\ rooms[r] = {c}
                     /\ last'.ws = c
                     /\ last'.ev = "close" \/ last'.kind = "join"

\* C16: between events no room id of the live registry maps to an empty
\* member set; a room entry appears only in a join step whose joiner is then
\* in it, and disappears only in the join (leave) or close step of the
\* connection that was its only member.
C16_NoEmptyLiveRooms ==
  []NoEmptyEntry /\ [][EntryCreatedByJoiner /\ EntryDeletedByLastMember]_vars

\* the only room ever joined is gone from the live registry after a close
C16_Witness ==
  /\ last.ev = "close"
  /\ allRooms = {"a"}
  /\ rooms = EmptyMap

\* C17: ws.terminate() is called on a connection only by a tick at which its
\* liveness flag is false; a new connection starts with the flag true; a
\* processed pong sets the flag, and only a tick lowers it: a connection
\* whose pong is processed between every two ticks is never terminated.
C17_ResponsiveNotEvicted ==
  [][\A c \in Conns :
       /\ (terminated'[c] /\ ~terminated[c]) => (Tick /\ ~isAlive[c])
       /\ (readyState[c] = "NONE" /\ readyState'[c] = OPEN) => isAlive'[c]
       /\ Pong(c) => (isAlive'[c] /\ ~terminated'[c])
       /\ (isAlive[c] /\ ~isAlive'[c]) => (Tick /\ ~terminated'[c])
    ]_vars

\* a tick has terminated a silent connection, and an open connection has been
\* through a tick without being terminated
C17_Witness ==
  \E c \in Conns : \E d \in Conns \ {c} :
    /\ terminated[d]
    /\ readyState[c] = OPEN /\ ~isAlive[c] /\ ~terminated[c]

IgnoredFrames == {NotJson} \cup {Json(o) : o \in OtherObjs}

\* C18: a frame that is not JSON, has no type field, or has a type other than
\* join and msg makes the server send nothing to anyone and leaves the
\* registry, the historical set, the activity timestamps, every room
\* reference and name, and the connection's transport state unchanged.
C18_IgnoredPayloads ==
  [][\A c \in Conns : \A f \in IgnoredFrames :
       Message(c, f) =>
         /\ outbox' = Empty
         /\ UNCHANGED <<rooms, allRooms, roomUpdated, meta, readyState, closeCode>>
    ]_vars

\* a member of a room with an open peer has just sent an ignored frame
C18_Witness ==
  \E c \in Conns : \E d \in Conns \ {c} :
    /\ last = [ev |-> "message", ws |-> c, kind |-> "ignored"]
    /\ {c, d} \subseteq Members(rooms, "a")
    /\ meta[c].room = Some("a")
    /\ readyState[c] = OPEN /\ readyState[d] = OPEN
    /\ outbox = Empty

\* C19: in the variant that keeps the historical set, no step removes a room
\* id from it, and in every state every room id of the live registry is in
\* it.
C19_HistoryMonotone ==
  /\ [](variant = "history" => DOMAIN rooms \subseteq allRooms)
  /\ [][variant = "history" => allRooms \subseteq allRooms']_vars

\* a room that was joined and has been left by all its members is still in
\* the historical set, next to a live room
C19_Witness ==
  /\ variant = "history"
  /\ "a" \in allRooms \ DOMAIN rooms
  /\ DOMAIN rooms # {}
====
